---- MODULE Spec2Model ----
(***************************************************************************)
(* Session lifecycle of mcp-okta-auth: the AuthManager (auth-manager.ts),  *)
(* the service catalog (service-registry.ts) and the MCP tool handler      *)
(* (index.ts).  The credential store is the set of cookie files under      *)
(* ~/.mcp-auth plus the legacy per-service files written by copySession.   *)
(***************************************************************************)
EXTENDS Integers, Sequences, FiniteSets, TLC

VARIABLES
    files,      \* path -> file record: the durable store and the legacy files
    browser,    \* AuthManager.browser: "null" or "open"
    now,        \* Date.now() / 1000, in whole seconds
    last,       \* the tool call whose response is being sent, or NoCall
    vcookies,   \* validator harness: the credential set under test
    vresult,    \* validator harness: "idle", or the validator's answer
    disk,       \* save steps: path -> the record as text, byte run by byte run
    saver,      \* save steps: the process inside saveOktaCookies or saveServiceCookies
    loaded,     \* save steps: what the last load of another process returned
    calls,      \* overlapping calls: caller -> where its authenticate stands
    instances   \* overlapping calls: browser instance -> its life so far

saveVars == <<disk, saver, loaded>>

overlapVars == <<calls, instances>>

vars == <<files, browser, now, last, vcookies, vresult, saveVars, overlapVars>>

----------------------------------------------------------------------------
(* Bounds of the model *)

MaxTime == 2    \* the clock runs over 1..MaxTime
MaxLen == 2     \* longest credential set handed to the validator harness
MaxInstances == 2   \* browser instances launched while calls are followed

Times == 1 .. MaxTime

----------------------------------------------------------------------------
(* Cookies.  A cookie is [name, domain, expires]; expires is {} when the   *)
(* field is absent (undefined) and {t} when it is the number t.            *)

NoExpires == {}

\* JavaScript truthiness of cookie.expires: undefined and 0 are falsy.
Truthy(e) == e # {} /\ e # {0}

OktaDomain == "toasttab.okta.com"

Cookie(n, d, e) == [name |-> n, domain |-> d, expires |-> e]

MarkerNames == {"JSESSIONID", "idx"}
CookieNames == MarkerNames \cup {"sid"}

\* Every value cookie.expires takes in the model: absent, Playwright's -1 of
\* a session cookie, 0, and the instants of the clock.
ExpiresValues == {NoExpires} \cup {{t} : t \in (-1) .. MaxTime}

SeqsUpTo(S, n) == UNION {[1 .. k -> S] : k \in 0 .. n}

----------------------------------------------------------------------------
(* Session Validator: AuthManager.validateOktaSession *)

IsMarker(c) == c.name = "JSESSIONID" \/ c.name = "idx"

\* cookies.find(c => c.name === "JSESSIONID" || c.name === "idx"):
\* the first match in array order, {} when there is none (undefined).
FindSessionCookie(cookies) ==
    LET hits == {i \in DOMAIN cookies : IsMarker(cookies[i])}
    IN  IF hits = {} THEN {}
        ELSE {cookies[CHOOSE i \in hits : \A j \in hits : i <= j]}

\* Mutant of Expired: an expiry at the current instant counts as passed
ExpiredAtOrBefore(c, t) == Truthy(c.expires) /\ \E e \in c.expires : e <= t

\* sessionCookie.expires && sessionCookie.expires < now
Expired(c, t) == Truthy(c.expires) /\ \E e \in c.expires : e < t

\* Mutant of validateOktaSession: a set with no marker is assumed valid
ValidateNoMarkerCheck(cookies, t) ==
    \A c \in FindSessionCookie(cookies) : ~Expired(c, t)

\* Mutant of validateOktaSession: an absent expiry is treated as expired
ValidateRequireExpiry(cookies, t) ==
    /\ FindSessionCookie(cookies) # {}
    /\ \A c \in FindSessionCookie(cookies) : c.expires # {} /\ ~Expired(c, t)

validateOktaSession(cookies, t) ==
    LET sessionCookie == FindSessionCookie(cookies)
    IN  IF sessionCookie = {} THEN FALSE
        ELSE IF \E c \in sessionCookie : Expired(c, t) THEN FALSE
        ELSE TRUE

----------------------------------------------------------------------------
(* Service Catalog: SERVICE_CONFIGS of service-registry.ts *)

CatalogKeys == {"datahub", "splunk", "zeppelin"}

\* SERVICE_CONFIGS is an object literal, so a lookup SERVICE_CONFIGS[key] also
\* finds the property names every object inherits from Object.prototype.
InheritedKeys == {"constructor"}

\* A service argument that is absent (undefined); like "", it is falsy.
NoService == ""

\* The service arguments a caller passes: the catalog keys, the sentinel
\* "all" (the key of no catalog entry), an inherited property name, a key
\* holding a path segment, and no key at all.
ServiceArgs ==
    CatalogKeys \cup {"all", "constructor", "../okta-cookies", NoService}

\* The service arguments of authenticate in the model: none, two catalog
\* keys, the key of no catalog entry and an inherited property name.
AuthServiceArgs == {NoService, "datahub", "splunk", "all", "constructor"}

\* The toService arguments of copySession in the model
CopyTargets == {"datahub", "splunk", "all", "constructor"}

\* SERVICE_CONFIGS[service]: "config" for an own entry, "inherited" for a
\* value found on the prototype, "undefined" otherwise.
Lookup(service) ==
    IF service \in CatalogKeys THEN "config"
    ELSE IF service \in InheritedKeys THEN "inherited"
    ELSE "undefined"

\* !config
InCatalog(service) == Lookup(service) # "undefined"

\* SERVICE_CONFIGS[service].cookieDomain; an inherited value has no such
\* field, and String.includes(undefined) searches for "undefined".
cookieDomain(service) ==
    CASE service = "datahub" -> "datahub.eng.toasttab.com"
      [] service = "splunk" -> "toast.splunkcloud.com"
      [] service = "zeppelin" -> "zeppelin-okta.eng.toasttab.com"
      [] OTHER -> "undefined"

\* domain.includes(needle), for the domains and needles of the model
Includes(domain, needle) ==
    \/ domain = needle
    \/ /\ needle = "okta.com"
       /\ domain = "toasttab.okta.com"
    \/ /\ needle = "toasttab.com"
       /\ domain \in {"datahub.eng.toasttab.com", "zeppelin-okta.eng.toasttab.com"}

----------------------------------------------------------------------------
(* Credential Store: the files under ~/.mcp-auth and the legacy files *)

OwnerOnly == "0600"       \* fs.chmod(file, 0o600)
DefaultMode == "0644"     \* mode of a file fs.writeFile creates

Absent == [exists |-> FALSE, cookies |-> <<>>, mode |-> "none"]

oktaCookieFile == "okta-cookies.json"

\* path.join(this.serviceCookieDir, `${service}.json`), relative to authDir;
\* path.join resolves a ".." segment.
ServiceFile(service) ==
    IF service = "../okta-cookies" THEN oktaCookieFile
    ELSE "services/" \o service \o ".json"

\* legacyPaths[toService] of copySession: {} when the lookup is undefined.
\* An inherited property name finds a non-string value.
LegacyPath(service) ==
    IF service \in CatalogKeys THEN {".mcp-" \o service \o "/cookies.json"}
    ELSE IF service \in InheritedKeys THEN {"not-a-path"}
    ELSE {}

StorePaths ==
    {oktaCookieFile} \cup {ServiceFile(k) : k \in CatalogKeys \cup InheritedKeys}
LegacyPaths == UNION {LegacyPath(k) : k \in CatalogKeys}
Paths == StorePaths \cup LegacyPaths

\* fs.writeFile(path, JSON.stringify(cookies)): replaces the content, keeps
\* the mode of an existing file, creates a missing one with the default mode.
\* The content is kept as the value JSON.parse reads back from it.
WriteFile(fs, p, cookies) ==
    [fs EXCEPT ![p] = [exists |-> TRUE, cookies |-> cookies,
                       mode |-> IF fs[p].exists THEN fs[p].mode ELSE DefaultMode]]

\* fs.chmod(path, 0o600)
Chmod(fs, p, m) == [fs EXCEPT ![p].mode = m]

\* fs.rm(path, {force: true})
Rm(fs, p) == IF p \in DOMAIN fs THEN [fs EXCEPT ![p] = Absent] ELSE fs

\* Mutant of RmAuthDir: only the identity-provider record is removed
RmOktaFileOnly(fs) == Rm(fs, oktaCookieFile)

\* fs.rm(this.authDir, {recursive: true, force: true}) and ensureDirectories
RmAuthDir(fs) == [p \in DOMAIN fs |-> IF p \in StorePaths THEN Absent ELSE fs[p]]

\* loadOktaCookies: {} for null, {cookies} otherwise
loadOktaCookies(fs) ==
    IF fs[oktaCookieFile].exists THEN {fs[oktaCookieFile].cookies} ELSE {}

saveOktaCookies(fs, cookies) ==
    Chmod(WriteFile(fs, oktaCookieFile, cookies), oktaCookieFile, OwnerOnly)

\* loadServiceCookies: [] when the file cannot be read
loadServiceCookies(fs, service) ==
    LET file == ServiceFile(service)
    IN  IF file \in DOMAIN fs /\ fs[file].exists THEN fs[file].cookies ELSE <<>>

saveServiceCookies(fs, service, cookies) ==
    LET file == ServiceFile(service)
    IN  Chmod(WriteFile(fs, file, cookies), file, OwnerOnly)

----------------------------------------------------------------------------
(* Interactive login capability: what one run of the browser does *)

\* The cookie sets page.context().cookies() returns in the model.  The
\* dated marker expires one second before the end of the clock.
Captures ==
    { <<Cookie("idx", OktaDomain, {MaxTime - 1}),
        Cookie("sid", "datahub.eng.toasttab.com", NoExpires)>>,
      <<Cookie("sid", "toast.splunkcloud.com", NoExpires)>> }

\* kind: where the run ends.  "launchFault": chromium.launch throws;
\* "navFault": newPage, addCookies or goto throws; "loginTimeout":
\* waitForFunction times out; "captured": the cookies are read and saved;
\* "oktaWriteFault": saveOktaCookies throws before writing;
\* "serviceWriteFault": saveServiceCookies throws before writing.
\* closeFault: browser.close() throws in the finally block.
Outcomes ==
    { o \in [kind : {"launchFault", "navFault", "loginTimeout", "captured",
                     "oktaWriteFault", "serviceWriteFault"},
             cookies : Captures \cup {<<>>},
             closeFault : BOOLEAN] :
        (o.cookies # <<>>) <=>
            (o.kind \in {"captured", "oktaWriteFault", "serviceWriteFault"}) }

NoOutcome == [kind |-> "unused", cookies |-> <<>>, closeFault |-> FALSE]

----------------------------------------------------------------------------
(* Session Lifecycle Manager: the methods of AuthManager.  A method is an   *)
(* operator from the state it reads to [res, files, browser, launched].    *)

\* An AuthResult.  cookies is {} when the field is absent.
Result(ok, msg, service, cookies) ==
    [thrown |-> FALSE, success |-> ok, message |-> msg,
     service |-> service, cookies |-> cookies]

\* An Error thrown out of the method
Thrown(msg) ==
    [thrown |-> TRUE, success |-> FALSE, message |-> msg,
     service |-> NoService, cookies |-> {}]

Return(res, fs, br, launched) ==
    [res |-> res, files |-> fs, browser |-> br, launched |-> launched]

\* cookies.filter(c => c.domain.includes("okta.com") ||
\*                     c.domain.includes("toasttab.com"))
OktaFilter(cookies) ==
    LET keep(c) == Includes(c.domain, "okta.com") \/ Includes(c.domain, "toasttab.com")
    IN  SelectSeq(cookies, keep)

\* cookies.filter(c => c.domain.includes(serviceDomain))
ServiceFilter(cookies, service) ==
    LET keep(c) == Includes(c.domain, cookieDomain(service))
    IN  SelectSeq(cookies, keep)

completeServiceAuth(service, oktaCookies) ==
    IF ~InCatalog(service)
    THEN Result(FALSE, "Unknown service", NoService, {})
    ELSE Result(TRUE, "Okta authenticated. Run service-specific auth",
                service, {oktaCookies})

\* The try block of browserAuthenticate with its catch: the result and the
\* files it leaves, the browser being launched.
BrowserTry(fs, service, o) ==
    LET oktaCookies == OktaFilter(o.cookies)
        fs1 == saveOktaCookies(fs, oktaCookies)
        withService == service # NoService /\ InCatalog(service)
        fs2 == IF withService
               THEN saveServiceCookies(fs1, service, ServiceFilter(o.cookies, service))
               ELSE fs1
        failed == Result(FALSE, "Browser authentication failed", NoService, {})
    IN  CASE o.kind \in {"navFault", "loginTimeout", "oktaWriteFault"} ->
                [res |-> failed, files |-> fs]
          [] o.kind = "serviceWriteFault" ->
                [res |-> failed, files |-> fs1]
          [] OTHER ->
                [res |-> Result(TRUE,
                                IF service # NoService THEN "Authenticated with service"
                                ELSE "Okta authentication successful",
                                service, {oktaCookies}),
                 files |-> fs2]

\* browserAuthenticate: try, catch and finally.  A fault of browser.close()
\* in the finally block replaces the result by the thrown error and leaves
\* this.browser set.
browserAuthenticate(fs, br, service, o) ==
    IF o.kind = "launchFault"
    THEN LET failed == Result(FALSE, "Browser authentication failed", NoService, {})
         IN  IF br = "null" THEN Return(failed, fs, br, TRUE)
             ELSE IF o.closeFault THEN Return(Thrown("close failed"), fs, br, TRUE)
             ELSE Return(failed, fs, "null", TRUE)
    ELSE LET t == BrowserTry(fs, service, o)
         IN  IF o.closeFault THEN Return(Thrown("close failed"), t.files, "open", TRUE)
             ELSE Return(t.res, t.files, "null", TRUE)

\* Mutant of the reuse test of authenticate: forceRefresh is ignored
ReuseIgnoringForce(fs, t, forceRefresh) ==
    \E existingAuth \in loadOktaCookies(fs) : validateOktaSession(existingAuth, t)

\* Mutant of the reuse test of authenticate: the stored set is never reused
ReuseNever(fs, t, forceRefresh) == FALSE

\* if (!forceRefresh) { existingAuth = load; if (existingAuth && valid) ... }
ReuseExisting(fs, t, forceRefresh) ==
    /\ ~forceRefresh
    /\ \E existingAuth \in loadOktaCookies(fs) : validateOktaSession(existingAuth, t)

\* Mutant of CatchAuthenticate: the error leaves authenticate
RethrowAuthenticate(r) == r

\* The catch block of authenticate: an error thrown inside the try block
\* becomes a failure result
CatchAuthenticate(r) ==
    IF r.res.thrown
    THEN Return(Result(FALSE, "Authentication failed", NoService, {}),
                r.files, r.browser, r.launched)
    ELSE r

authenticate(fs, br, t, service, forceRefresh, o) ==
    IF ReuseExisting(fs, t, forceRefresh)
    THEN LET existingAuth == CHOOSE c \in loadOktaCookies(fs) : TRUE
         IN  IF service # NoService
             THEN Return(completeServiceAuth(service, existingAuth), fs, br, FALSE)
             ELSE Return(Result(TRUE, "Okta authentication valid", NoService,
                                {existingAuth}), fs, br, FALSE)
    ELSE CatchAuthenticate(browserAuthenticate(fs, br, service, o))

\* Mutant of checkAuthStatus: a service has cookies when its record exists,
\* and is authenticated when it has cookies
CheckStatusByFile(fs, t) ==
    LET authenticated ==
            \E oktaCookies \in loadOktaCookies(fs) : validateOktaSession(oktaCookies, t)
    IN  [okta |-> [authenticated |-> authenticated],
         services |-> [service \in CatalogKeys |->
            [authenticated |-> authenticated /\ fs[ServiceFile(service)].exists,
             hasServiceCookies |-> fs[ServiceFile(service)].exists]]]

\* checkAuthStatus: the AuthStatus snapshot
checkAuthStatus(fs, t) ==
    LET authenticated ==
            \E oktaCookies \in loadOktaCookies(fs) : validateOktaSession(oktaCookies, t)
    IN  [okta |-> [authenticated |-> authenticated],
         services |-> [service \in CatalogKeys |->
            [authenticated |-> authenticated,
             hasServiceCookies |-> Len(loadServiceCookies(fs, service)) > 0]]]

\* getServiceToken: the success result carries no message; its token, read
\* from the cookie values, is not modelled.
getServiceToken(fs, service) ==
    IF ~InCatalog(service) THEN Thrown("Unknown service")
    ELSE LET serviceCookies == loadServiceCookies(fs, service)
         IN  IF Len(serviceCookies) = 0
             THEN Result(FALSE, "No authentication found", NoService, {})
             ELSE Result(TRUE, "", service, {serviceCookies})

\* Mutant of refreshSession: only a missing set is refreshed
RefreshOnlyWhenAbsent(fs, br, t, o) ==
    IF loadOktaCookies(fs) = {}
    THEN authenticate(fs, br, t, NoService, TRUE, o)
    ELSE Return(Result(TRUE, "Session still valid", NoService, loadOktaCookies(fs)),
                fs, br, FALSE)

refreshSession(fs, br, t, o) ==
    IF \A oktaCookies \in loadOktaCookies(fs) : ~validateOktaSession(oktaCookies, t)
    THEN authenticate(fs, br, t, NoService, TRUE, o)
    ELSE Return(Result(TRUE, "Session still valid", NoService, loadOktaCookies(fs)),
                fs, br, FALSE)

\* Mutant of copySession: the legacy copy is made without a stored set
CopyWithoutSession(fs, toService, writeFault) ==
    [res |-> Result(TRUE, "Okta session copied", NoService, {}),
     files |-> [p \in DOMAIN fs |->
                  IF p \in LegacyPath(toService)
                  THEN [exists |-> TRUE, cookies |-> <<>>, mode |-> DefaultMode]
                  ELSE fs[p]]]

\* Mutant of copySession: the session is moved, not copied
CopyMovingSession(fs, toService, writeFault) ==
    IF loadOktaCookies(fs) = {}
    THEN [res |-> Result(FALSE, "No Okta session found", NoService, {}), files |-> fs]
    ELSE LET oktaCookies == CHOOSE c \in loadOktaCookies(fs) : TRUE
             target == LegacyPath(toService) \cap DOMAIN fs
         IN  [res |-> Result(TRUE, "Okta session copied", NoService, {}),
              files |-> IF writeFault THEN fs
                        ELSE [p \in DOMAIN fs |->
                                IF p \in target THEN WriteFile(fs, p, oktaCookies)[p]
                                ELSE IF p = oktaCookieFile THEN Absent
                                ELSE fs[p]]]

\* Mutant of copySession: a fault of the legacy write fails the call
CopyFailingOnFault(fs, toService, writeFault) ==
    IF loadOktaCookies(fs) = {} \/ writeFault
    THEN [res |-> Result(FALSE, "No Okta session found", NoService, {}), files |-> fs]
    ELSE LET oktaCookies == CHOOSE c \in loadOktaCookies(fs) : TRUE
             target == LegacyPath(toService) \cap DOMAIN fs
         IN  [res |-> Result(TRUE, "Okta session copied", NoService, {}),
              files |-> [p \in DOMAIN fs |->
                           IF p \in target THEN WriteFile(fs, p, oktaCookies)[p]
                           ELSE fs[p]]]

\* copySession(fromService, toService); fromService is never read.
\* writeFault: fs.mkdir or fs.writeFile of the legacy copy throws.
copySession(fs, toService, writeFault) ==
    IF loadOktaCookies(fs) = {}
    THEN [res |-> Result(FALSE, "No Okta session found", NoService, {}), files |-> fs]
    ELSE LET oktaCookies == CHOOSE c \in loadOktaCookies(fs) : TRUE
             target == LegacyPath(toService) \cap DOMAIN fs
         IN  [res |-> Result(TRUE, "Okta session copied", NoService, {}),
              files |-> IF writeFault THEN fs
                        ELSE [p \in DOMAIN fs |->
                                IF p \in target
                                THEN WriteFile(fs, p, oktaCookies)[p]
                                ELSE fs[p]]]

clearAuth(fs, service) ==
    IF service = NoService \/ service = "all"
    THEN [res |-> Result(TRUE, "All authentication cleared", NoService, {}),
          files |-> RmAuthDir(fs)]
    ELSE [res |-> Result(TRUE, "Authentication cleared for service", NoService, {}),
          files |-> Rm(fs, ServiceFile(service))]

----------------------------------------------------------------------------
(* The steps of a save, as another process sees them.  saveOktaCookies and  *)
(* saveServiceCookies run fs.writeFile, which opens the file (creating or  *)
(* truncating it) and then writes the text, and fs.chmod after it.  A      *)
(* record on disk is a text: "[", one token per cookie, "]".               *)

Token(tok, cookie) == [tok |-> tok, cookie |-> cookie]

\* JSON.stringify(cookies, null, 2)
Stringify(cookies) ==
    <<Token("[", {})>> \o [i \in DOMAIN cookies |-> Token("cookie", {cookies[i]})]
                       \o <<Token("]", {})>>

\* JSON.parse(data): {} when it throws, {cookies} otherwise.  A text parses
\* when it opens with "[", closes with "]" and holds cookies in between.
Parse(text) ==
    IF /\ Len(text) >= 2
       /\ text[1].tok = "["
       /\ text[Len(text)].tok = "]"
       /\ \A i \in 2 .. (Len(text) - 1) : text[i].tok = "cookie"
    THEN {[i \in 1 .. (Len(text) - 2) |-> CHOOSE c \in text[i + 1].cookie : TRUE]}
    ELSE {}

NoRecord == [exists |-> FALSE, text |-> <<>>, mode |-> "none"]

\* The records the save steps are followed on: the identity-provider scope
\* and one service scope
SavePaths == {oktaCookieFile, ServiceFile("datahub")}

\* What browserAuthenticate hands to saveOktaCookies and saveServiceCookies
SavedSets(p) ==
    IF p = oktaCookieFile THEN {OktaFilter(c) : c \in Captures}
    ELSE {ServiceFilter(c, "datahub") : c \in Captures}

\* A record a finished save left behind
SavedRecord(cookies) ==
    [exists |-> TRUE, text |-> Stringify(cookies), mode |-> OwnerOnly]

\* loadOktaCookies and loadServiceCookies on the text of the record: the
\* catch block answers null ({}) for the identity-provider scope and []
\* for a service scope
LoadText(d, p) ==
    LET parsed == IF d[p].exists THEN Parse(d[p].text) ELSE {}
    IN  IF p = oktaCookieFile THEN parsed
        ELSE IF parsed = {} THEN {<<>>} ELSE parsed

NoSaver == [pc |-> "idle", path |-> "", cookies |-> <<>>, before |-> {}]
NoLoad == [path |-> "", during |-> FALSE, result |-> {}, before |-> {}, new |-> {}]

\* No save is followed step by step
SaveIdle ==
    /\ disk = [p \in SavePaths |-> NoRecord]
    /\ saver = NoSaver
    /\ loaded = NoLoad

----------------------------------------------------------------------------
(* Overlapping authenticate calls.  The handler of index.ts is async and   *)
(* one AuthManager serves every request, so a second authenticate can run  *)
(* while the first one awaits inside browserAuthenticate.  A call is       *)
(* followed from one await to the next; this.browser is the one field the  *)
(* calls share.                                                            *)

Callers == 1 .. 2

\* The browser instances chromium.launch() can return
Instances == {"b" \o ToString(i) : i \in 1 .. MaxInstances}

\* launchedBy, closedBy: 0 when no call has launched or closed the instance.
\* overlap: the instance ran while the other call was in its login phase.
NoInstance ==
    [state |-> "none", launchedBy |-> 0, closedBy |-> 0, overlap |-> FALSE]

\* pc: "idle", "launch" (awaiting chromium.launch), "login" (awaiting the
\* page), "finally" (entering the finally block), "closed" (awaiting
\* browser.close), "returned".  own: the instance the call launched.
NoCaller == [pc |-> "idle", service |-> NoService, own |-> "null", success |-> FALSE]

\* No authenticate call is followed step by step
OverlapIdle ==
    /\ calls = [c \in Callers |-> NoCaller]
    /\ instances = [i \in Instances |-> NoInstance]

----------------------------------------------------------------------------
(* Tool surface: the CallToolRequestSchema handler of index.ts *)

\* What the handler sends back: the JSON of the method's result, or, from
\* its catch block, {error: true, message}.
Payload(res) ==
    IF res.thrown THEN [error |-> TRUE, message |-> res.message]
    ELSE [error |-> FALSE, success |-> res.success, message |-> res.message,
          service |-> res.service, cookies |-> res.cookies]

\* A call in flight: the request, whether it launched the browser, the run
\* of the browser or the fault of the legacy write it met, and its response
Call(tool, service, forceRefresh, launched, reply) ==
    [tool |-> tool, service |-> service, forceRefresh |-> forceRefresh,
     launched |-> launched, reply |-> reply,
     run |-> NoOutcome, writeFault |-> FALSE]

NoCall == Call("none", NoService, FALSE, FALSE, [error |-> FALSE])

\* The handler serves one request at a time: it takes the next one when
\* the response of the last one has been sent.
Idle == last = NoCall

\* Which run of the browser a call meets: none when it launches no
\* browser, a fault of saveServiceCookies only when it saves a service's
\* cookies, and a fault of browser.close() only when close is called.
Admissible(service, launched, o, br) ==
    /\ launched <=> o # NoOutcome
    /\ o.kind = "serviceWriteFault" => (service # NoService /\ InCatalog(service))
    /\ o.closeFault => (o.kind # "launchFault" \/ br # "null")

AuthenticateTool ==
    /\ Idle
    /\ \E service \in AuthServiceArgs, forceRefresh \in BOOLEAN,
          o \in Outcomes \cup {NoOutcome} :
        LET r == authenticate(files, browser, now, service, forceRefresh, o)
        IN  /\ Admissible(service, r.launched, o, browser)
            /\ files' = r.files
            /\ browser' = r.browser
            /\ last' = [Call("authenticate", service, forceRefresh, r.launched,
                             Payload(r.res)) EXCEPT !.run = o]
    /\ UNCHANGED <<now, vcookies, vresult, saveVars, overlapVars>>

CheckAuthStatusTool ==
    /\ Idle
    /\ last' = Call("check_auth_status", NoService, FALSE, FALSE,
                    checkAuthStatus(files, now))
    /\ UNCHANGED <<files, browser, now, vcookies, vresult, saveVars, overlapVars>>

GetServiceTokenTool ==
    /\ Idle
    /\ \E service \in ServiceArgs :
        last' = Call("get_service_token", service, FALSE, FALSE,
                     Payload(getServiceToken(files, service)))
    /\ UNCHANGED <<files, browser, now, vcookies, vresult, saveVars, overlapVars>>

RefreshSessionTool ==
    /\ Idle
    /\ \E o \in Outcomes \cup {NoOutcome} :
        LET r == refreshSession(files, browser, now, o)
        IN  /\ Admissible(NoService, r.launched, o, browser)
            /\ files' = r.files
            /\ browser' = r.browser
            /\ last' = [Call("refresh_session", NoService, FALSE, r.launched,
                             Payload(r.res)) EXCEPT !.run = o]
    /\ UNCHANGED <<now, vcookies, vresult, saveVars, overlapVars>>

CopySessionTool ==
    /\ Idle
    /\ \E fromService \in CatalogKeys, toService \in CopyTargets,
          writeFault \in BOOLEAN :
        LET r == copySession(files, toService, writeFault)
        IN  /\ writeFault =>
                 (loadOktaCookies(files) # {} /\ LegacyPath(toService) # {})
            /\ files' = r.files
            /\ last' = [Call("copy_session", toService, FALSE, FALSE, Payload(r.res))
                           EXCEPT !.writeFault = writeFault]
    /\ UNCHANGED <<browser, now, vcookies, vresult, saveVars, overlapVars>>

ClearAuthTool ==
    /\ Idle
    /\ \E service \in ServiceArgs :
        LET r == clearAuth(files, service)
        IN  /\ files' = r.files
            /\ last' = Call("clear_auth", service, FALSE, FALSE, Payload(r.res))
    /\ UNCHANGED <<browser, now, vcookies, vresult, saveVars, overlapVars>>

\* The response is sent and the handler waits for the next request
Respond ==
    /\ ~Idle
    /\ last' = NoCall
    /\ UNCHANGED <<files, browser, now, vcookies, vresult, saveVars, overlapVars>>

\* Time passes between two requests
Tick ==
    /\ Idle
    /\ now < MaxTime
    /\ now' = now + 1
    /\ UNCHANGED <<files, browser, last, vcookies, vresult, saveVars, overlapVars>>

Init ==
    /\ files = [p \in Paths |-> Absent]
    /\ browser = "null"
    /\ now = 1
    /\ last = NoCall
    /\ vcookies = <<>>
    /\ vresult = "idle"
    /\ SaveIdle
    /\ OverlapIdle

Next ==
    \/ AuthenticateTool
    \/ CheckAuthStatusTool
    \/ GetServiceTokenTool
    \/ RefreshSessionTool
    \/ CopySessionTool
    \/ ClearAuthTool
    \/ Respond
    \/ Tick

Spec == Init /\ [][Next]_vars

----------------------------------------------------------------------------
(* Validator harness: validateOktaSession applied to every credential set  *)
(* of at most MaxLen cookies, at every instant of the clock.               *)

ValidatorCookies ==
    {Cookie(n, OktaDomain, e) : n \in CookieNames, e \in ExpiresValues}

InitValidator ==
    /\ files = [p \in Paths |-> Absent]
    /\ browser = "null"
    /\ now \in Times
    /\ last = NoCall
    /\ vcookies \in SeqsUpTo(ValidatorCookies, MaxLen)
    /\ vresult = "idle"
    /\ SaveIdle
    /\ OverlapIdle

Validate ==
    /\ vresult = "idle"
    /\ vresult' = IF validateOktaSession(vcookies, now) THEN "valid" ELSE "invalid"
    /\ UNCHANGED <<files, browser, now, last, vcookies, saveVars, overlapVars>>

NextValidator == Validate

SpecValidator == InitValidator /\ [][NextValidator]_vars

----------------------------------------------------------------------------
(* Save steps: one process saves a scope while another loads it *)

InitSave ==
    /\ files = [p \in Paths |-> Absent]
    /\ browser = "null"
    /\ now = 1
    /\ last = NoCall
    /\ vcookies = <<>>
    /\ vresult = "idle"
    /\ disk \in [SavePaths -> {NoRecord} \cup
                    {SavedRecord(c) : c \in UNION {SavedSets(p) : p \in SavePaths}}]
    /\ \A p \in SavePaths :
          disk[p].exists => \E c \in SavedSets(p) : disk[p] = SavedRecord(c)
    /\ saver = NoSaver
    /\ loaded = NoLoad
    /\ OverlapIdle

\* fs.writeFile opens the file with flag "w": a missing file is created
\* with the default mode, an existing one is truncated and keeps its mode
SaveOpen ==
    /\ saver.pc = "idle"
    /\ \E p \in SavePaths : \E cookies \in SavedSets(p) :
        /\ saver' = [pc |-> "write", path |-> p, cookies |-> cookies,
                     before |-> LoadText(disk, p)]
        /\ disk' = [disk EXCEPT ![p] =
                      [exists |-> TRUE, text |-> <<>>,
                       mode |-> IF disk[p].exists THEN disk[p].mode ELSE DefaultMode]]
    /\ UNCHANGED <<files, browser, now, last, vcookies, vresult, loaded, overlapVars>>

\* fs.writeFile writes the next run of bytes of the text
SaveWrite ==
    /\ saver.pc = "write"
    /\ LET text == Stringify(saver.cookies)
           done == Len(disk[saver.path].text)
       IN  /\ done < Len(text)
           /\ disk' = [disk EXCEPT ![saver.path].text = SubSeq(text, 1, done + 1)]
           /\ saver' = [saver EXCEPT !.pc = IF done + 1 = Len(text) THEN "chmod"
                                            ELSE "write"]
    /\ UNCHANGED <<files, browser, now, last, vcookies, vresult, loaded, overlapVars>>

\* fs.chmod(file, 0o600), and the save returns
SaveChmod ==
    /\ saver.pc = "chmod"
    /\ disk' = [disk EXCEPT ![saver.path].mode = OwnerOnly]
    /\ saver' = NoSaver
    /\ UNCHANGED <<files, browser, now, last, vcookies, vresult, loaded, overlapVars>>

\* Another process loads a scope: fs.readFile and JSON.parse
Load ==
    /\ \E p \in SavePaths :
        LET during == saver.pc # "idle" /\ saver.path = p
        IN  loaded' = [path |-> p, during |-> during, result |-> LoadText(disk, p),
                       before |-> IF during THEN saver.before ELSE {},
                       new |-> IF during THEN {saver.cookies} ELSE {}]
    /\ UNCHANGED <<files, browser, now, last, vcookies, vresult, disk, saver, overlapVars>>

NextSave ==
    \/ SaveOpen
    \/ SaveWrite
    \/ SaveChmod
    \/ Load

SpecSave == InitSave /\ [][NextSave]_vars

----------------------------------------------------------------------------
(* Two authenticate calls on one AuthManager, from await to await *)

InitOverlap ==
    /\ files = [p \in Paths |-> Absent]
    /\ browser = "null"
    /\ now = 1
    /\ last = NoCall
    /\ vcookies = <<>>
    /\ vresult = "idle"
    /\ SaveIdle
    /\ OverlapIdle

\* The runs of the page a call can meet once its browser is launched
PageOutcomes ==
    {o \in Outcomes : o.kind # "launchFault" /\ ~o.closeFault}

\* authenticate(service, undefined, true) is called and reaches
\* chromium.launch() in browserAuthenticate
OverlapCall(c) ==
    /\ calls[c].pc = "idle"
    /\ Cardinality({i \in Instances : instances[i].state = "none"})
          > Cardinality({d \in Callers : calls[d].pc = "launch"})
    /\ \E service \in {NoService, "datahub"} :
          calls' = [calls EXCEPT ![c] = [NoCaller EXCEPT !.pc = "launch",
                                                         !.service = service]]
    /\ UNCHANGED <<files, browser, now, last, vcookies, vresult, saveVars, instances>>

\* this.browser = await chromium.launch(): the new instance replaces
\* whatever this.browser held.  A launch that throws goes to the finally
\* block through the catch.
OverlapLaunch(c) ==
    /\ calls[c].pc = "launch"
    /\ \/ /\ \E i \in Instances :
                /\ instances[i].state = "none"
                /\ LET others == {j \in Instances :
                                    /\ instances[j].state = "running"
                                    /\ \E d \in Callers : /\ calls[d].pc = "login"
                                                          /\ calls[d].own = j}
                   IN  instances' =
                         [j \in Instances |->
                            IF j = i
                            THEN [state |-> "running", launchedBy |-> c,
                                  closedBy |-> 0, overlap |-> others # {}]
                            ELSE IF j \in others
                            THEN [instances[j] EXCEPT !.overlap = TRUE]
                            ELSE instances[j]]
                /\ browser' = i
                /\ calls' = [calls EXCEPT ![c].pc = "login", ![c].own = i]
       \/ /\ calls' = [calls EXCEPT ![c].pc = "finally"]
          /\ UNCHANGED <<browser, instances>>
    /\ UNCHANGED <<files, now, last, vcookies, vresult, saveVars>>

\* The rest of the try block, on the page of the call's own instance:
\* newPage, goto, waitForFunction, cookies and the saves.  The page of an
\* instance that has been closed throws.
OverlapLogin(c) ==
    /\ calls[c].pc = "login"
    /\ \E o \in PageOutcomes :
        LET t == BrowserTry(files, calls[c].service, o)
        IN  /\ instances[calls[c].own].state = "closed" => o.kind = "navFault"
            /\ o.kind = "serviceWriteFault" => calls[c].service # NoService
            /\ files' = t.files
            /\ calls' = [calls EXCEPT ![c].pc = "finally",
                                      ![c].success = t.res.success]
    /\ UNCHANGED <<browser, now, last, vcookies, vresult, saveVars, instances>>

\* finally { if (this.browser) { await this.browser.close(); ...: the
\* instance this.browser holds now is closed
OverlapFinallyClose(c) ==
    /\ calls[c].pc = "finally"
    /\ IF browser = "null"
       THEN /\ calls' = [calls EXCEPT ![c].pc = "returned"]
            /\ UNCHANGED instances
       ELSE /\ calls' = [calls EXCEPT ![c].pc = "closed"]
            /\ instances' =
                 [instances EXCEPT ![browser] =
                    IF @.state = "running"
                    THEN [@ EXCEPT !.state = "closed", !.closedBy = c]
                    ELSE @]
    /\ UNCHANGED <<files, browser, now, last, vcookies, vresult, saveVars>>

\* ... this.browser = null; } }
OverlapFinallyNull(c) ==
    /\ calls[c].pc = "closed"
    /\ browser' = "null"
    /\ calls' = [calls EXCEPT ![c].pc = "returned"]
    /\ UNCHANGED <<files, now, last, vcookies, vresult, saveVars, instances>>

\* The handler sends the result of the call
OverlapReturn(c) ==
    /\ calls[c].pc = "returned"
    /\ calls' = [calls EXCEPT ![c] = NoCaller]
    /\ UNCHANGED <<files, browser, now, last, vcookies, vresult, saveVars, instances>>

NextOverlap ==
    \E c \in Callers :
        \/ OverlapCall(c)
        \/ OverlapLaunch(c)
        \/ OverlapLogin(c)
        \/ OverlapFinallyClose(c)
        \/ OverlapFinallyNull(c)
        \/ OverlapReturn(c)

SpecOverlap == InitOverlap /\ [][NextOverlap]_vars

----------------------------------------------------------------------------
(* Properties of the validator, checked under SpecValidator *)

Validated == vresult # "idle"

\* The position of the first session marker of the set under test
FirstMarkerAt(i) ==
    /\ i \in DOMAIN vcookies
    /\ vcookies[i].name \in MarkerNames
    /\ \A j \in 1 .. (i - 1) : vcookies[j].name \notin MarkerNames

C4_ExpiredMarkerIsInvalid ==
    (/\ Validated
     /\ \E i \in DOMAIN vcookies :
            /\ vcookies[i].name \in MarkerNames
            /\ \E e \in vcookies[i].expires : e < now)
    => vresult = "invalid"

\* C5, as claimed: a set whose session marker expires at the current
\* instant is invalid.
C5_ExpiryAtNowIsInvalid ==
    (/\ Validated
     /\ \E i \in DOMAIN vcookies : FirstMarkerAt(i) /\ vcookies[i].expires = {now})
    => vresult = "invalid"

\* C5, amended: a set whose first session marker expires at the current
\* instant is valid; the validator rejects a set with a marker only when
\* the expiry of its first marker is strictly before the current instant.
C5_ExpiryAtNowIsValid ==
    /\ (/\ Validated
        /\ \E i \in DOMAIN vcookies : FirstMarkerAt(i) /\ vcookies[i].expires = {now})
       => vresult = "valid"
    /\ \A i \in DOMAIN vcookies :
          (vresult = "invalid" /\ FirstMarkerAt(i))
          => \E e \in vcookies[i].expires : e < now

\* A set found valid whose only marker expires at the current instant
C5_Witness ==
    /\ vresult = "valid"
    /\ Len(vcookies) = 1
    /\ vcookies[1].name = "idx"
    /\ vcookies[1].expires = {now}

\* C6: every credential set with no credential named JSESSIONID or idx,
\* the empty set included, is invalid.
C6_NoMarkerIsInvalid ==
    (/\ Validated
     /\ \A i \in DOMAIN vcookies : vcookies[i].name \notin MarkerNames)
    => vresult = "invalid"

\* A non-empty set without a marker that was found invalid
C6_Witness ==
    /\ vresult = "invalid"
    /\ Len(vcookies) = 2
    /\ \A i \in DOMAIN vcookies : vcookies[i].name = "sid"

----------------------------------------------------------------------------
(* Properties of the tool calls, checked under Spec *)

\* The stored identity-provider set exists and the validator accepts it
StoredSetValid ==
    /\ files[oktaCookieFile].exists
    /\ validateOktaSession(files[oktaCookieFile].cookies, now)

\* C1: authenticate with forceRefresh = false, called while the stored
\* identity-provider set exists and is valid, launches no browser and leaves
\* every file as it was, with and without a service key.
C1_ValidSessionIsReused ==
    [][(/\ Idle
        /\ last'.tool = "authenticate"
        /\ ~last'.forceRefresh
        /\ StoredSetValid)
       => (~last'.launched /\ files' = files)]_vars

\* authenticate("datahub") has answered from a valid stored set
C1_Witness ==
    /\ last.tool = "authenticate"
    /\ last.service = "datahub"
    /\ ~last.forceRefresh
    /\ ~last.launched
    /\ last.reply.success
    /\ StoredSetValid

\* C2: authenticate with forceRefresh = true always launches the browser,
\* whatever the stored identity-provider set and the service key are.
C2_ForceRefreshLaunches ==
    (last.tool = "authenticate" /\ last.forceRefresh) => last.launched

\* A forced authenticate launched the browser although the stored set was
\* valid: the login failed, so the valid set is the one it found.
C2_Witness ==
    /\ last.tool = "authenticate"
    /\ last.forceRefresh
    /\ last.launched
    /\ ~last.reply.success
    /\ StoredSetValid

\* clearAuth was called with "all" or with no argument
ClearedAll == last.tool = "clear_auth" /\ last.service \in {"all", NoService}

\* C7: after clearAuth("all") or clearAuth(), checkAuthStatus reports
\* okta.authenticated = false and hasServiceCookies = false for every
\* catalog service.
C7_ClearAllThenStatus ==
    ClearedAll =>
        LET status == checkAuthStatus(files, now)
        IN  /\ ~status.okta.authenticated
            /\ \A service \in CatalogKeys :
                   ~status.services[service].hasServiceCookies

\* clearAuth("all") has run on a store that held an identity-provider set:
\* a legacy copy of it is still there.
C7_Witness ==
    /\ ClearedAll
    /\ \E p \in LegacyPaths : files[p].exists /\ Len(files[p].cookies) > 0

\* C8: clearAuth(s) with s other than "all" succeeds and removes only the
\* scope of s: the identity-provider record and the record of every other
\* service are unchanged.
C8_ClearOneScopeOnly ==
    [][(/\ Idle
        /\ last'.tool = "clear_auth"
        /\ last'.service \notin {"all", NoService})
       => (/\ ~last'.reply.error
           /\ last'.reply.success
           /\ files'[oktaCookieFile] = files[oktaCookieFile]
           /\ \A k \in CatalogKeys \ {last'.service} :
                  files'[ServiceFile(k)] = files[ServiceFile(k)])]_vars

\* C9: getServiceToken on a key that is not in the catalog throws an
\* unknown-service error, which the handler returns as {error: true,
\* message}; it never returns a result.
C9_UnknownServiceIsAnError ==
    (last.tool = "get_service_token" /\ last.service \notin CatalogKeys)
    => (last.reply.error /\ last.reply.message = "Unknown service")

\* C10: copySession, called while no identity-provider set is stored,
\* returns the failure "No Okta session found" and changes no file, in the
\* store or at a legacy location.
C10_CopyWithoutSession ==
    [][(/\ Idle
        /\ last'.tool = "copy_session"
        /\ ~files[oktaCookieFile].exists)
       => (/\ ~last'.reply.error
           /\ ~last'.reply.success
           /\ last'.reply.message = "No Okta session found"
           /\ files' = files)]_vars

\* copySession to a service with a legacy location has failed for want of
\* a stored set
C10_Witness ==
    /\ last.tool = "copy_session"
    /\ last.service = "datahub"
    /\ ~last.reply.success
    /\ ~files[oktaCookieFile].exists

\* C11: checkAuthStatus reports, for exactly the catalog services, the
\* identity-provider flag (the validator's answer on the stored set, false
\* when there is none) as authenticated, and hasServiceCookies exactly when
\* the service's record holds a non-empty set; each call reads the store
\* as it is at the call.
C11_StatusMirrorsStore ==
    last.tool = "check_auth_status" =>
        /\ last.reply.okta.authenticated = StoredSetValid
        /\ DOMAIN last.reply.services = CatalogKeys
        /\ \A service \in CatalogKeys :
              /\ last.reply.services[service].authenticated = StoredSetValid
              /\ last.reply.services[service].hasServiceCookies =
                    (/\ files[ServiceFile(service)].exists
                     /\ files[ServiceFile(service)].cookies # <<>>)

\* A status taken over a valid identity-provider set, a service record that
\* holds cookies and a service record that holds the empty set
C11_Witness ==
    /\ last.tool = "check_auth_status"
    /\ last.reply.okta.authenticated
    /\ last.reply.services["datahub"].hasServiceCookies
    /\ files[ServiceFile("splunk")].exists
    /\ ~last.reply.services["splunk"].hasServiceCookies

\* C12: refreshSession launches the interactive login, for no service,
\* exactly when the stored identity-provider set is absent or invalid; over
\* a valid set it returns success with that set, launches nothing and
\* changes no file.
C12_RefreshOnlyWhenNeeded ==
    [][(Idle /\ last'.tool = "refresh_session")
       => /\ last'.launched = ~StoredSetValid
          /\ \A k \in CatalogKeys : files'[ServiceFile(k)] = files[ServiceFile(k)]
          /\ StoredSetValid =>
                /\ ~last'.reply.error
                /\ last'.reply.success
                /\ last'.reply.message = "Session still valid"
                /\ last'.reply.cookies = {files[oktaCookieFile].cookies}
                /\ files' = files
                /\ browser' = browser]_vars

\* refreshSession has launched the login over a stored set that is expired
\* (the login failed, so the set is the one it found)
C12_Witness ==
    /\ last.tool = "refresh_session"
    /\ last.launched
    /\ ~last.reply.success
    /\ files[oktaCookieFile].exists
    /\ files[oktaCookieFile].cookies # <<>>
    /\ ~StoredSetValid

\* C13: every file the program has written cookies into (the
\* identity-provider record, the service records, the legacy copies) has
\* the owner-only mode 600 once the writing call has returned.
C13_WrittenFilesOwnerOnly ==
    \A p \in Paths : files[p].exists => files[p].mode = OwnerOnly

\* The runs of the browser that end in a fault or a timeout
FaultKinds ==
    {"launchFault", "navFault", "loginTimeout", "oktaWriteFault", "serviceWriteFault"}

\* C16: every authenticate call returns a result and never throws; when
\* the login times out, the browser raises a fault or a store write fails,
\* the result has success = false and a message.
C16_AuthenticateNeverThrows ==
    last.tool = "authenticate" =>
        /\ ~last.reply.error
        /\ (last.run.kind \in FaultKinds \/ last.run.closeFault) =>
              (~last.reply.success /\ last.reply.message # "")

\* C16 witness: an authenticate call whose browser.close() threw after the
\* cookies were saved has answered with a failure result
C16_Witness ==
    /\ last.tool = "authenticate"
    /\ last.run.kind = "captured"
    /\ last.run.closeFault
    /\ ~last.reply.error
    /\ ~last.reply.success

\* C17: between operations the manager holds no browser handle: every
\* authenticate that launched the browser has closed it and reset the
\* handle to null.
C17_NoBrowserHandleBetweenOperations == Idle => browser = "null"

\* C18: copySession writes nothing to a legacy location when the validator
\* rejects the stored identity-provider set at the time of the copy.
C18_CopyOnlyValidatedSet ==
    [][(Idle /\ last'.tool = "copy_session" /\ ~StoredSetValid)
          => \A p \in LegacyPaths : files'[p] = files[p]]_vars

\* C19: with an identity-provider set stored, a copySession whose legacy
\* write fails returns the success it returns without the fault, and the
\* centralized store is unchanged.
C19_LegacyWriteFaultIsSwallowed ==
    [][(Idle /\ last'.tool = "copy_session" /\ last'.writeFault)
          => /\ loadOktaCookies(files) # {}
             /\ ~last'.reply.error
             /\ last'.reply.success
             /\ last'.reply = Payload(copySession(files, last'.service, FALSE).res)
             /\ \A p \in StorePaths : files'[p] = files[p]]_vars

\* C19 witness: a copy whose legacy write failed has answered success
C19_Witness ==
    /\ last.tool = "copy_session"
    /\ last.writeFault
    /\ last.reply.success
    /\ files[oktaCookieFile].exists

\* The captured cookies whose domain is the identity provider's
IdentityProviderCookies(cookies) ==
    LET keep(c) == Includes(c.domain, "okta.com")
    IN  SelectSeq(cookies, keep)

\* The call ran the browser up to the capture of the cookies and saved them
LoginCompleted(call) ==
    call.tool \in {"authenticate", "refresh_session"} /\ call.run.kind = "captured"

\* C20: after an interactive login completes, the identity-provider scope
\* holds exactly the captured cookies of the identity provider's domain;
\* the scope of the targeted service, when it is a known service key, holds
\* exactly the captured cookies of that service's cookie domain; every other
\* service scope is unchanged.
C20_CapturedCookiesArePartitioned ==
    [][(Idle /\ LoginCompleted(last'))
          => LET captured == last'.run.cookies
                 service == last'.service
             IN  /\ files'[oktaCookieFile].exists
                 /\ files'[oktaCookieFile].cookies = IdentityProviderCookies(captured)
                 /\ \A k \in CatalogKeys \cup InheritedKeys :
                       IF k = service /\ k \in CatalogKeys
                       THEN /\ files'[ServiceFile(k)].exists
                            /\ files'[ServiceFile(k)].cookies = ServiceFilter(captured, k)
                       ELSE files'[ServiceFile(k)] = files[ServiceFile(k)]]_vars

\* C21: authenticate called with a service key that is not in the catalog
\* returns a failure result, whatever the stored set and forceRefresh are.
C21_UnknownServiceNeverSucceeds ==
    (/\ last.tool = "authenticate"
     /\ last.service # NoService
     /\ last.service \notin CatalogKeys)
        => (~last.reply.error /\ ~last.reply.success)

\* C23: when authenticate has returned success = true, a checkAuthStatus
\* run at once, on the same store at the same instant, reports
\* okta.authenticated = true.
C23_SuccessThenStatusAuthenticated ==
    (/\ last.tool = "authenticate"
     /\ ~last.reply.error
     /\ last.reply.success)
        => checkAuthStatus(files, now).okta.authenticated

\* C24: an authenticate call that returns a failure result has modified no
\* scope of the store.
C24_FailureLeavesStoreUnchanged ==
    [][(/\ Idle
        /\ last'.tool = "authenticate"
        /\ ~last'.reply.error
        /\ ~last'.reply.success)
          => \A p \in StorePaths : files'[p] = files[p]]_vars

\* The call ran an interactive login to its end: the cookies were captured
\* and the identity-provider set saved
LoginSaved(call) ==
    /\ call.tool \in {"authenticate", "refresh_session"}
    /\ call.run.kind \in {"captured", "serviceWriteFault"}

\* C25: the flag checkAuthStatus reports for the identity provider goes
\* from false to true only in a step of authenticate or refreshSession
\* whose interactive login completed; checkAuthStatus, getServiceToken and
\* copySession leave the identity-provider record as it is, and clearAuth
\* leaves it as it is or removes it.
C25_FlagRisesOnlyThroughLogin ==
    [][/\ (~StoredSetValid /\ StoredSetValid') => LoginSaved(last')
       /\ (Idle /\ last'.tool \in {"check_auth_status", "get_service_token",
                                   "copy_session"})
             => files'[oktaCookieFile] = files[oktaCookieFile]
       /\ (Idle /\ last'.tool = "clear_auth")
             => files'[oktaCookieFile] \in {files[oktaCookieFile], Absent}]_vars

\* C25 witness: a refreshSession, which launches the browser only when the
\* flag is false, has completed a login and the flag is true
C25_Witness ==
    /\ last.tool = "refresh_session"
    /\ last.run.kind = "captured"
    /\ StoredSetValid

----------------------------------------------------------------------------
(* Properties of the save steps, checked under SpecSave *)

\* C14: in every state another process can observe, the intermediate states
\* of a save included, a record present in the identity-provider scope or in
\* a service scope has owner-only permissions.
C14_RecordsOwnerOnlyAtEveryStep ==
    \A p \in SavePaths : disk[p].exists => disk[p].mode = OwnerOnly

\* C15: a load that interleaves with a save of the same scope returns the
\* set stored before the save or the complete new set.
C15_LoadSeesOldOrNew ==
    loaded.during => (loaded.result = loaded.before \/ loaded.result = loaded.new)

----------------------------------------------------------------------------
(* Properties of overlapping calls, checked under SpecOverlap *)

\* Every call has returned and its result has been sent
AllReturned == \A c \in Callers : calls[c].pc = "idle"

\* C22: when two authenticate calls overlap in their login phase, a browser
\* instance is closed only by the call that launched it, and once the calls
\* have returned no launched instance is still running.
C22_EachCallClosesItsOwnBrowser ==
    \A i \in Instances :
        instances[i].overlap =>
            /\ instances[i].closedBy \in {0, instances[i].launchedBy}
            /\ AllReturned => instances[i].state # "running"

====
